---------------------------- MODULE Spec2Model ----------------------------
(***************************************************************************)
(* Model of the scanner (src/lexer.py) and the parser (src/parser.py) of   *)
(* the "pain" front end, driven as src/main.py drives them: a Lexer is     *)
(* built over one source line, a Parser is built over that Lexer, and      *)
(* Parser.parse is called until it returns the trees or raises.            *)
(*                                                                         *)
(* A source is a sequence of one-character strings.  Python's 0-based      *)
(* curr_index is kept as it is; source[curr_index] is source[curr_index+1] *)
(* here.  A Python exception is a value of the field "raised"/"err" that   *)
(* every caller propagates unchanged, as the interpreter unwinds.          *)
(***************************************************************************)
EXTENDS Integers, Sequences, FiniteSets, TLC

VARIABLES
    source,        \* Lexer.source
    curr_index,    \* Lexer.curr_index
    row,           \* Lexer.row
    col,           \* Lexer.col
    phase,         \* where the session is: "lexer", "parser", "returned", "raised"
    pulls,         \* number of direct calls of Lexer.next made by the client
    last,          \* outcome of the latest Lexer.next: [token, raised]
    curr_token,    \* Parser.curr_token
    prev_token,    \* Parser.prev_token
    parsed_trees,  \* Parser.parsed_trees
    error          \* the exception that ended the session, or NoError

vars == <<source, curr_index, row, col, phase, pulls, last,
          curr_token, prev_token, parsed_trees, error>>

-----------------------------------------------------------------------------
(* Characters *)

Digits == {"0", "1", "2", "3", "4", "5", "6", "7", "8", "9"}

Letters == {"a", "b", "c", "d", "e", "f", "g", "h", "i", "j", "k", "l", "m",
            "n", "o", "p", "q", "r", "s", "t", "u", "v", "w", "x", "y", "z"}

isnumeric(c) == c \in Digits
isalpha(c) == c \in Letters
isalnum(c) == isalpha(c) \/ isnumeric(c)

-----------------------------------------------------------------------------
(* Tokens *)

Token(type, lexeme) == [type |-> type, lexeme |-> lexeme]

EofLexeme == <<"E", "o", "f">>

NoToken == Token("None", <<>>)

\* the identifier texts the scanner turns into keyword tokens
Keyword(identifier) ==
    CASE identifier = <<"a", "n", "d">> -> "And"
      [] identifier = <<"o", "r">> -> "Or"
      [] identifier = <<"i", "f">> -> "If"
      [] identifier = <<"v", "a", "r">> -> "Var"
      [] identifier = <<"c", "o", "n", "s", "t">> -> "Const"
      [] identifier = <<"f", "u", "n", "c", "t", "i", "o", "n">> -> "Function"
      [] identifier = <<"c", "l", "a", "s", "s">> -> "Class"
      [] identifier = <<"f", "o", "r">> -> "For"
      [] identifier = <<"w", "h", "i", "l", "e">> -> "While"
      [] identifier = <<"r", "e", "t", "u", "r", "n">> -> "Return"
      [] OTHER -> "Identifier"

-----------------------------------------------------------------------------
(* Lexer: the scanner's cursor is the record [curr_index, row, col] *)

NewLexer == [curr_index |-> 0, row |-> 0, col |-> 0]

Lexer_is_at_end(lx) == lx.curr_index >= Len(source)

\* source[curr_index]; Python raises IndexError when the index is Len(source) or more
Lexer_curr_raises(lx) == lx.curr_index >= Len(source)

Lexer_curr(lx) == source[lx.curr_index + 1]

Lexer_advance(lx) ==
    [lx EXCEPT !.curr_index = lx.curr_index + 1, !.col = lx.col + 1]

Returned(lx, type, lexeme) ==
    [lexer |-> lx, token |-> Token(type, lexeme), raised |-> "none"]

Raised(lx, exception) ==
    [lexer |-> lx, token |-> NoToken, raised |-> exception]

\* one punctuation character: advance, return the token
SingleChar(lx, type) == Returned(Lexer_advance(lx), type, <<Lexer_curr(lx)>>)

\* an operator character: advance, look at the character after it
Lookahead(lx, bare, compound) ==
    LET c == Lexer_curr(lx)
        l1 == Lexer_advance(lx)
    IN  IF Lexer_curr_raises(l1) THEN Raised(l1, "IndexError")
        ELSE IF Lexer_curr(l1) = "="
             THEN Returned(Lexer_advance(l1), compound, <<c, "=">>)
             ELSE Returned(l1, bare, <<c>>)

RECURSIVE a_string_loop(_, _)
a_string_loop(lx, result) ==
    IF Lexer_is_at_end(lx) THEN [lexer |-> lx, result |-> result]
    ELSE IF Lexer_curr(lx) = "\"" THEN [lexer |-> lx, result |-> result]
    ELSE a_string_loop(Lexer_advance(lx), Append(result, Lexer_curr(lx)))

a_string(lx) ==
    LET r == a_string_loop(Lexer_advance(lx), <<>>)
    IN  [lexer |-> Lexer_advance(r.lexer), result |-> r.result]

RECURSIVE a_number_loop(_, _, _)
a_number_loop(lx, result, is_float) ==
    IF Lexer_is_at_end(lx)
    THEN [lexer |-> lx, result |-> result, is_float |-> is_float]
    ELSE IF Lexer_curr(lx) = "."
    THEN a_number_loop(Lexer_advance(lx), Append(result, Lexer_curr(lx)), TRUE)
    ELSE IF ~isnumeric(Lexer_curr(lx))
    THEN [lexer |-> lx, result |-> result, is_float |-> is_float]
    ELSE a_number_loop(Lexer_advance(lx), Append(result, Lexer_curr(lx)), is_float)

a_number(lx) == a_number_loop(lx, <<>>, FALSE)

RECURSIVE an_identifier_loop(_, _)
an_identifier_loop(lx, result) ==
    IF Lexer_is_at_end(lx) THEN [lexer |-> lx, result |-> result]
    ELSE IF ~isalnum(Lexer_curr(lx)) THEN [lexer |-> lx, result |-> result]
    ELSE an_identifier_loop(Lexer_advance(lx), Append(result, Lexer_curr(lx)))

an_identifier(lx) == an_identifier_loop(lx, <<>>)

\* at_end with the cursor moved on, as after any other token
at_end_advancing(lx) == Returned(Lexer_advance(lx), "Eof", EofLexeme)

\* what next returns once the source is exhausted
at_end(lx) == Returned(lx, "Eof", EofLexeme)

RECURSIVE Lexer_next(_)
Lexer_next(lx) ==
    IF Lexer_is_at_end(lx) THEN at_end(lx)
    ELSE LET c == Lexer_curr(lx) IN
      CASE c = "(" -> SingleChar(lx, "LeftParen")
        [] c = ")" -> SingleChar(lx, "RightParen")
        [] c = "[" -> SingleChar(lx, "LeftBrace")
        [] c = "]" -> SingleChar(lx, "RightBrace")
        [] c = "{" -> SingleChar(lx, "LeftBracket")
        [] c = "}" -> SingleChar(lx, "RightBracket")
        [] c = "=" -> Lookahead(lx, "Equal", "EqualEqual")
        [] c = ">" -> Lookahead(lx, "GreaterThan", "GreaterThanEqual")
        [] c = "<" -> Lookahead(lx, "LessThan", "LessThanEqual")
        [] c = "+" -> Lookahead(lx, "Plus", "PlusEqual")
        [] c = "-" -> Lookahead(lx, "Minus", "MinusEqual")
        [] c = "*" -> Lookahead(lx, "Star", "StarEqual")
        [] c = "/" -> Lookahead(lx, "Slash", "SlashEqual")
        [] c = "^" -> Lookahead(lx, "Carrot", "CarrotEqual")
        [] c = "\"" -> LET s == a_string(lx)
                       IN  Returned(s.lexer, "String", s.result)
        [] isnumeric(c) -> LET n == a_number(lx)
                           IN  IF n.is_float
                               THEN Returned(n.lexer, "Float", n.result)
                               ELSE Returned(n.lexer, "Int", n.result)
        [] c = ":" -> SingleChar(lx, "Colon")
        [] c = ";" -> SingleChar(lx, "Semicolon")
        [] c = "\n" -> Lexer_next([curr_index |-> lx.curr_index + 1,
                                   row |-> lx.row + 1, col |-> 0])
        [] c = "," -> SingleChar(lx, "Comma")
        [] c = " " -> Lexer_next(Lexer_advance(lx))
        [] isalpha(c) -> LET id == an_identifier(lx)
                         IN  Returned(id.lexer, Keyword(id.result), id.result)
        [] OTHER -> Returned(Lexer_advance(lx), "Illegal", <<c>>)

-----------------------------------------------------------------------------
(* Syntax tree nodes *)

IntExpr(val) == [kind |-> "IntExpr", val |-> val]
StringExpr(val) == [kind |-> "StringExpr", val |-> val]
FloatExpr(val) == [kind |-> "FloatExpr", val |-> val]
IdentifierExpr(val) == [kind |-> "IdentifierExpr", val |-> val]
BinaryExpr(lhs, op, rhs) == [kind |-> "BinaryExpr", lhs |-> lhs, op |-> op, rhs |-> rhs]
BlockExpr(exprs) == [kind |-> "BlockExpr", exprs |-> exprs]
VarExpr(lhs, rhs) == [kind |-> "VarExpr", lhs |-> lhs, rhs |-> rhs]
ConstExpr(lhs, rhs) == [kind |-> "ConstExpr", lhs |-> lhs, rhs |-> rhs]
FunctionExpr(identifier, params, body) ==
    [kind |-> "FunctionExpr", identifier |-> identifier, params |-> params, body |-> body]
ReturnExpr(expr) == [kind |-> "ReturnExpr", expr |-> expr]

NoTree == [kind |-> "None"]

PrimaryExpr == {"IntExpr", "StringExpr", "FloatExpr", "IdentifierExpr"}

-----------------------------------------------------------------------------
(* The operator table *)

Operator(op, precedence, associativity) ==
    [op |-> op, precedence |-> precedence, associativity |-> associativity]

ALLOWED_OPS ==
    (<<"o", "r">> :> Operator(<<"o", "r">>, 0, "Left")) @@
    (<<"a", "n", "d">> :> Operator(<<"a", "n", "d">>, 0, "Left")) @@
    (<<"n", "o", "t">> :> Operator(<<"n", "o", "t">>, 0, "Left")) @@
    (<<"=", "=">> :> Operator(<<"=", "=">>, 0, "Left")) @@
    (<<"<">> :> Operator(<<"<">>, 1, "Left")) @@
    (<<"<", "=">> :> Operator(<<"<", "=">>, 1, "Left")) @@
    (<<">">> :> Operator(<<">">>, 1, "Left")) @@
    (<<">", "=">> :> Operator(<<">">>, 1, "Left")) @@
    (<<"+">> :> Operator(<<"+">>, 6, "Left")) @@
    (<<"-">> :> Operator(<<"-">>, 6, "Left")) @@
    (<<"*">> :> Operator(<<"*">>, 7, "Left")) @@
    (<<"/">> :> Operator(<<"/">>, 7, "Left")) @@
    (<<"^">> :> Operator(<<"^">>, 8, "Right"))

-----------------------------------------------------------------------------
(* Literal conversions *)

DigitValue == ("0" :> 0) @@ ("1" :> 1) @@ ("2" :> 2) @@ ("3" :> 3) @@ ("4" :> 4) @@
              ("5" :> 5) @@ ("6" :> 6) @@ ("7" :> 7) @@ ("8" :> 8) @@ ("9" :> 9)

\* int(lexeme) of a run of decimal digits
RECURSIVE int(_)
int(lexeme) ==
    IF lexeme = <<>> THEN 0
    ELSE 10 * int(SubSeq(lexeme, 1, Len(lexeme) - 1)) + DigitValue[lexeme[Len(lexeme)]]

Dots(lexeme) == {i \in 1..Len(lexeme) : lexeme[i] = "."}

\* float(lexeme) raises ValueError unless the digits hold exactly one "."
float_raises(lexeme) == Cardinality(Dots(lexeme)) # 1

RECURSIVE Normal(_, _)
Normal(num, frac) ==
    IF frac > 0 /\ num % 10 = 0 THEN Normal(num \div 10, frac - 1) ELSE <<num, frac>>

\* float(lexeme) as the pair <<n, k>> standing for n / 10^k, in lowest terms of 10
float(lexeme) ==
    LET dot == CHOOSE i \in Dots(lexeme) : TRUE
        digits == SubSeq(lexeme, 1, dot - 1) \o SubSeq(lexeme, dot + 1, Len(lexeme))
    IN  Normal(int(digits), Len(lexeme) - dot)

-----------------------------------------------------------------------------
(* Parser: its cursor is the record [lexer, curr_token, prev_token] *)

NoError == [kind |-> "none", expected |-> "", actual |-> <<>>, row |-> 0, col |-> 0]

Exception(kind) == [NoError EXCEPT !.kind = kind]

\* what a parsing method hands back: the parser after it, and a tree or an exception
Result(ps, tree) == [parser |-> ps, tree |-> tree, err |-> NoError]
Raise(ps, err) == [parser |-> ps, tree |-> NoTree, err |-> err]

\* Parser.advance, Parser.match and the parsing methods are written as the set
\* of their outcomes, which has one element (the parser decides everything
\* from its cursor): a caller takes the outcome with \in and so computes it
\* once, as the method's local variable does
Parser_advance(ps) ==
    { IF n.raised # "none"
      THEN [parser |-> [ps EXCEPT !.lexer = n.lexer, !.prev_token = ps.curr_token],
            err |-> Exception(n.raised)]
      ELSE [parser |-> [lexer |-> n.lexer, curr_token |-> n.token,
                        prev_token |-> ps.curr_token],
            err |-> NoError]
      : n \in {Lexer_next(ps.lexer)} }

Parser_is_at_end(ps) == ps.curr_token.type = "Eof"

\* match with one token type: [parser, matched, err]
match(ps, type) ==
    IF ps.curr_token.type = type
    THEN { [parser |-> a.parser, matched |-> a.err = NoError, err |-> a.err]
           : a \in Parser_advance(ps) }
    ELSE { [parser |-> ps, matched |-> FALSE, err |-> NoError] }

peek(ps, type) == ps.curr_token.type = type

unexpected_token(ps, token_str) ==
    Raise(ps, [kind |-> "UnexpectedToken", expected |-> token_str,
               actual |-> ps.curr_token.lexeme,
               row |-> ps.lexer.row, col |-> ps.lexer.col])

-----------------------------------------------------------------------------
(* The parsing methods.  Each takes the parser's cursor and gives a Result *)
(* or a Raise; an exception of a callee is handed on as it is.  A method   *)
(* that starts with `if self.match(T)` looks at the current token first:   *)
(* match returns False and leaves the parser as it is exactly when         *)
(* peek(ps, T) is false, and then the method falls through to the next.    *)

RECURSIVE parse_expr(_, _), parse_expr_loop(_, _, _), parse_primary(_),
          parse_int(_), parse_float(_), parse_string(_), parse_identifier(_),
          parse_var(_), parse_const(_), parse_block(_), parse_block_loop(_, _),
          parse_function_expr(_), parse_params_loop(_, _), parse_return_expr(_)

\* parse_expr_loop stopping at an operator of the threshold's own precedence
parse_expr_loop_strict(ps, lhs, min_precedence) ==
    IF Parser_is_at_end(ps) THEN {Result(ps, lhs)}
    ELSE
      LET op == ps.curr_token.lexeme
          op_is_allowed == op \in DOMAIN ALLOWED_OPS
          next_min_precedence ==
              IF ALLOWED_OPS[op].associativity = "Right"
              THEN ALLOWED_OPS[op].precedence + 1
              ELSE ALLOWED_OPS[op].precedence
      IN  IF ~op_is_allowed \/ ALLOWED_OPS[op].precedence <= min_precedence
          THEN {Result(ps, lhs)}
          ELSE UNION {
            IF a.err # NoError THEN {Raise(a.parser, a.err)}
            ELSE UNION {
              IF rhs.err # NoError THEN {rhs}
              ELSE parse_expr_loop(rhs.parser, BinaryExpr(lhs, op, rhs.tree),
                                   min_precedence)
              : rhs \in parse_expr(a.parser, next_min_precedence) }
            : a \in Parser_advance(ps) }

\* the while loop of parse_expr, entered with the left operand parsed so far
parse_expr_loop(ps, lhs, min_precedence) ==
    IF Parser_is_at_end(ps) THEN {Result(ps, lhs)}
    ELSE
      LET op == ps.curr_token.lexeme
          op_is_allowed == op \in DOMAIN ALLOWED_OPS
          next_min_precedence ==
              IF ALLOWED_OPS[op].associativity = "Right"
              THEN ALLOWED_OPS[op].precedence + 1
              ELSE ALLOWED_OPS[op].precedence
      IN  IF ~op_is_allowed \/ ALLOWED_OPS[op].precedence < min_precedence
          THEN {Result(ps, lhs)}
          ELSE UNION {
            IF a.err # NoError THEN {Raise(a.parser, a.err)}
            ELSE UNION {
              IF rhs.err # NoError THEN {rhs}
              ELSE parse_expr_loop(rhs.parser, BinaryExpr(lhs, op, rhs.tree),
                                   min_precedence)
              : rhs \in parse_expr(a.parser, next_min_precedence) }
            : a \in Parser_advance(ps) }

parse_expr(ps, min_precedence) ==
    UNION { IF lhs.err # NoError THEN {lhs}
            ELSE parse_expr_loop(lhs.parser, lhs.tree, min_precedence)
            : lhs \in parse_primary(ps) }

parse_primary(ps) == parse_int(ps)

parse_int(ps) ==
    IF ~peek(ps, "Int") THEN parse_float(ps)
    ELSE { IF m.err # NoError THEN Raise(m.parser, m.err)
           ELSE Result(m.parser, IntExpr(int(m.parser.prev_token.lexeme)))
           : m \in match(ps, "Int") }

parse_float(ps) ==
    IF ~peek(ps, "Float") THEN parse_string(ps)
    ELSE { IF m.err # NoError THEN Raise(m.parser, m.err)
           ELSE IF float_raises(m.parser.prev_token.lexeme)
           THEN Raise(m.parser, Exception("ValueError"))
           ELSE Result(m.parser, FloatExpr(float(m.parser.prev_token.lexeme)))
           : m \in match(ps, "Float") }

parse_string(ps) ==
    IF ~peek(ps, "String") THEN parse_identifier(ps)
    ELSE { IF m.err # NoError THEN Raise(m.parser, m.err)
           ELSE Result(m.parser, StringExpr(m.parser.prev_token.lexeme))
           : m \in match(ps, "String") }

parse_identifier(ps) ==
    IF ~peek(ps, "Identifier") THEN parse_var(ps)
    ELSE { IF m.err # NoError THEN Raise(m.parser, m.err)
           ELSE Result(m.parser, IdentifierExpr(m.parser.prev_token.lexeme))
           : m \in match(ps, "Identifier") }

\* parse_var without the test of the left-hand side's kind
parse_var_unchecked(ps) ==
    IF ~peek(ps, "Var") THEN parse_const(ps)
    ELSE UNION {
      IF m.err # NoError THEN {Raise(m.parser, m.err)}
      ELSE UNION {
        IF lhs.err # NoError THEN {lhs}
        ELSE UNION {
          IF eq.err # NoError THEN {Raise(eq.parser, eq.err)}
          ELSE IF ~eq.matched THEN {unexpected_token(eq.parser, "=")}
          ELSE UNION {
            IF rhs.err # NoError THEN {rhs}
            ELSE { IF semi.err # NoError THEN Raise(semi.parser, semi.err)
                   ELSE IF ~semi.matched THEN unexpected_token(semi.parser, ";")
                   ELSE Result(semi.parser, VarExpr(lhs.tree, rhs.tree))
                   : semi \in match(rhs.parser, "Semicolon") }
            : rhs \in parse_expr(eq.parser, 0) }
          : eq \in match(lhs.parser, "Equal") }
        : lhs \in parse_expr(m.parser, 0) }
      : m \in match(ps, "Var") }

parse_var(ps) ==
    IF ~peek(ps, "Var") THEN parse_const(ps)
    ELSE UNION {
      IF m.err # NoError THEN {Raise(m.parser, m.err)}
      ELSE UNION {
        IF lhs.err # NoError THEN {lhs}
        ELSE IF lhs.tree.kind # "IdentifierExpr"
        THEN {unexpected_token(lhs.parser, "identifier")}
        ELSE UNION {
          IF eq.err # NoError THEN {Raise(eq.parser, eq.err)}
          ELSE IF ~eq.matched THEN {unexpected_token(eq.parser, "=")}
          ELSE UNION {
            IF rhs.err # NoError THEN {rhs}
            ELSE { IF semi.err # NoError THEN Raise(semi.parser, semi.err)
                   ELSE IF ~semi.matched THEN unexpected_token(semi.parser, ";")
                   ELSE Result(semi.parser, VarExpr(lhs.tree, rhs.tree))
                   : semi \in match(rhs.parser, "Semicolon") }
            : rhs \in parse_expr(eq.parser, 0) }
          : eq \in match(lhs.parser, "Equal") }
        : lhs \in parse_expr(m.parser, 0) }
      : m \in match(ps, "Var") }

parse_const(ps) ==
    IF ~peek(ps, "Const") THEN parse_block(ps)
    ELSE UNION {
      IF m.err # NoError THEN {Raise(m.parser, m.err)}
      ELSE UNION {
        IF lhs.err # NoError THEN {lhs}
        ELSE IF lhs.tree.kind # "IdentifierExpr"
        THEN {unexpected_token(lhs.parser, "identifier")}
        ELSE UNION {
          IF eq.err # NoError THEN {Raise(eq.parser, eq.err)}
          ELSE IF ~eq.matched THEN {unexpected_token(eq.parser, "=")}
          ELSE UNION {
            IF rhs.err # NoError THEN {rhs}
            ELSE { IF semi.err # NoError THEN Raise(semi.parser, semi.err)
                   ELSE IF ~semi.matched THEN unexpected_token(semi.parser, ";")
                   ELSE Result(semi.parser, ConstExpr(lhs.tree, rhs.tree))
                   : semi \in match(rhs.parser, "Semicolon") }
            : rhs \in parse_expr(eq.parser, 0) }
          : eq \in match(lhs.parser, "Equal") }
        : lhs \in parse_expr(m.parser, 0) }
      : m \in match(ps, "Const") }

\* an iteration of a loop that leaves the parser where it was is repeated for
\* ever: the loop's exit tests read the parser's cursor only
NonTermination == Exception("NonTermination")

\* the while loop of parse_block
parse_block_loop(ps, exprs) ==
    IF Parser_is_at_end(ps) \/ peek(ps, "RightBracket")
    THEN {[parser |-> ps, exprs |-> exprs, err |-> NoError]}
    ELSE UNION {
      IF e.err # NoError
      THEN {[parser |-> e.parser, exprs |-> exprs, err |-> e.err]}
      ELSE IF e.parser = ps
      THEN {[parser |-> ps, exprs |-> exprs, err |-> NonTermination]}
      ELSE parse_block_loop(e.parser, Append(exprs, e.tree))
      : e \in parse_expr(ps, 0) }

parse_block(ps) ==
    IF ~peek(ps, "LeftBracket") THEN parse_function_expr(ps)
    ELSE UNION {
      IF m.err # NoError THEN {Raise(m.parser, m.err)}
      ELSE UNION {
        IF body.err # NoError THEN {Raise(body.parser, body.err)}
        ELSE { IF close.err # NoError THEN Raise(close.parser, close.err)
               ELSE IF ~close.matched THEN unexpected_token(close.parser, "}")
               ELSE Result(close.parser, BlockExpr(body.exprs))
               : close \in match(body.parser, "RightBracket") }
        : body \in parse_block_loop(m.parser, <<>>) }
      : m \in match(ps, "LeftBracket") }

\* parse_params_loop with the comma looked at (peek) and not consumed (match)
parse_params_loop_peeking(ps, params) ==
    IF Parser_is_at_end(ps)
    THEN {[parser |-> ps, params |-> params, err |-> NoError]}
    ELSE UNION {
      IF comma.err # NoError
      THEN {[parser |-> comma.parser, params |-> params, err |-> comma.err]}
      ELSE IF comma.matched
      THEN IF comma.parser = ps
           THEN {[parser |-> ps, params |-> params, err |-> NonTermination]}
           ELSE parse_params_loop(comma.parser, params)
      ELSE IF peek(ps, "RightParen")
      THEN {[parser |-> ps, params |-> params, err |-> NoError]}
      ELSE UNION {
        IF expr.err # NoError
        THEN {[parser |-> expr.parser, params |-> params, err |-> expr.err]}
        ELSE IF expr.parser = ps
        THEN {[parser |-> ps, params |-> params, err |-> NonTermination]}
        ELSE parse_params_loop(expr.parser, Append(params, expr.tree))
        : expr \in parse_expr(ps, 0) }
      : comma \in {[parser |-> ps, matched |-> peek(ps, "Comma"), err |-> NoError]} }

\* the while loop of parse_function_expr
parse_params_loop(ps, params) ==
    IF Parser_is_at_end(ps)
    THEN {[parser |-> ps, params |-> params, err |-> NoError]}
    ELSE UNION {
      IF comma.err # NoError
      THEN {[parser |-> comma.parser, params |-> params, err |-> comma.err]}
      ELSE IF comma.matched
      THEN IF comma.parser = ps
           THEN {[parser |-> ps, params |-> params, err |-> NonTermination]}
           ELSE parse_params_loop(comma.parser, params)
      ELSE IF peek(ps, "RightParen")
      THEN {[parser |-> ps, params |-> params, err |-> NoError]}
      ELSE UNION {
        IF expr.err # NoError
        THEN {[parser |-> expr.parser, params |-> params, err |-> expr.err]}
        ELSE IF expr.parser = ps
        THEN {[parser |-> ps, params |-> params, err |-> NonTermination]}
        ELSE parse_params_loop(expr.parser, Append(params, expr.tree))
        : expr \in parse_expr(ps, 0) }
      : comma \in match(ps, "Comma") }

parse_function_expr(ps) ==
    IF ~peek(ps, "Function") THEN parse_return_expr(ps)
    ELSE UNION {
      IF m.err # NoError THEN {Raise(m.parser, m.err)}
      ELSE UNION {
        IF name.err # NoError THEN {Raise(name.parser, name.err)}
        ELSE IF ~name.matched THEN {unexpected_token(name.parser, "identifier")}
        ELSE UNION {
          IF open.err # NoError THEN {Raise(open.parser, open.err)}
          ELSE IF ~open.matched THEN {unexpected_token(open.parser, "(")}
          ELSE UNION {
            IF list.err # NoError THEN {Raise(list.parser, list.err)}
            ELSE UNION {
              IF close.err # NoError THEN {Raise(close.parser, close.err)}
              ELSE IF ~close.matched THEN {unexpected_token(close.parser, ")")}
              ELSE { IF block.err # NoError THEN block
                     ELSE Result(block.parser,
                                 FunctionExpr(IdentifierExpr(name.parser.prev_token.lexeme),
                                              list.params, block.tree))
                     : block \in parse_block(close.parser) }
              : close \in match(list.parser, "RightParen") }
            : list \in parse_params_loop(open.parser, <<>>) }
          : open \in match(name.parser, "LeftParen") }
        : name \in match(m.parser, "Identifier") }
      : m \in match(ps, "Function") }

parse_return_expr(ps) ==
    IF ~peek(ps, "Return") THEN {unexpected_token(ps, "primary expression")}
    ELSE UNION {
      IF m.err # NoError THEN {Raise(m.parser, m.err)}
      ELSE UNION {
        IF expr.err # NoError THEN {expr}
        ELSE { IF semi.err # NoError THEN Raise(semi.parser, semi.err)
               ELSE IF ~semi.matched THEN unexpected_token(semi.parser, ";")
               ELSE Result(semi.parser, ReturnExpr(expr.tree))
               : semi \in match(expr.parser, "Semicolon") }
        : expr \in parse_expr(m.parser, 0) }
      : m \in match(ps, "Return") }

-----------------------------------------------------------------------------
(* The sources a session is run on *)

MaxSourceLen == 3   \* characters of a source spelled over Alphabet
MaxShortLen == 2    \* characters of a source spelled over every character
MaxChain == 2       \* operators of an expression source
MaxHole == 3        \* words put in the hole of a statement source
MaxPulls == 3       \* direct calls of Lexer.next by the client

BoundedSeq(S, n) == UNION {[1..k -> S] : k \in 0..n}

Alphabet == {"+", "=", "1", ".", "a", "\"", " ", "\n", "@"}

Characters == {"(", ")", "[", "]", "{", "}", "=", ">", "<", "+", "-", "*", "/",
               "^", "\"", "7", ".", ":", ";", "\n", ",", " ", "x", "@"}

CharSources == BoundedSeq(Alphabet, MaxSourceLen) \cup BoundedSeq(Characters, MaxShortLen)

RECURSIVE Join(_)
Join(words) ==
    IF words = <<>> THEN <<>>
    ELSE IF Len(words) = 1 THEN words[1]
    ELSE words[1] \o <<" ">> \o Join(Tail(words))

\* operands told apart by their position in the expression
OperandStyles == {"int", "float", "string", "identifier"}
DigitAt == <<"1", "2", "3", "4", "5", "6">>
LetterAt == <<"a", "b", "c", "d", "e", "g">>

Operand(style, i) ==
    CASE style = "int" -> <<DigitAt[i]>>
      [] style = "float" -> <<DigitAt[i], ".", "5">>
      [] style = "string" -> <<"\"", LetterAt[i], "\"">>
      [] style = "identifier" -> <<LetterAt[i]>>

\* the node the operand at position i is to be parsed to
Leaf(style, i) ==
    CASE style = "int" -> IntExpr(i)
      [] style = "float" -> FloatExpr(<<10 * i + 5, 1>>)
      [] style = "string" -> StringExpr(<<LetterAt[i]>>)
      [] style = "identifier" -> IdentifierExpr(<<LetterAt[i]>>)

Endings == {"operand", "operator", "space"}

\* operand op operand op ...: ending with the last operator's right operand,
\* with the last operator, or with the last operator and a space
ExprSource(ops, style, ending) ==
    LET n == Len(ops)
        words == [k \in 1..(2 * n) |->
                     IF k % 2 = 1 THEN Operand(style, (k + 1) \div 2) ELSE ops[k \div 2]]
    IN  CASE ending = "operand" -> Join(Append(words, Operand(style, n + 1)))
          [] ending = "operator" -> Join(words)
          [] ending = "space" -> Join(words) \o <<" ">>

ExprSources ==
    {ExprSource(ops, style, ending) :
        ops \in BoundedSeq(DOMAIN ALLOWED_OPS, MaxChain),
        style \in OperandStyles, ending \in Endings}

Spell == [var |-> <<"v", "a", "r">>, const |-> <<"c", "o", "n", "s", "t">>,
          function |-> <<"f", "u", "n", "c", "t", "i", "o", "n">>,
          return |-> <<"r", "e", "t", "u", "r", "n">>,
          f |-> <<"f">>, a |-> <<"a">>, b |-> <<"b">>, x |-> <<"x">>,
          one |-> <<"1">>, lparen |-> <<"(">>, rparen |-> <<")">>,
          lbracket |-> <<"{">>, rbracket |-> <<"}">>, comma |-> <<",">>,
          semicolon |-> <<";">>, equal |-> <<"=">>, plus |-> <<"+">>]

HoleWords == {Spell.return, Spell.lbracket, Spell.rbracket, Spell.comma,
              Spell.semicolon, Spell.x, Spell.one, Spell.plus}

Holes == BoundedSeq(HoleWords, MaxHole)

\* a statement with a hole: the words before it and the words after it
VarTemplate == <<<<Spell.var>>, <<Spell.equal, Spell.one, Spell.semicolon>>>>
ConstTemplate == <<<<Spell.const>>, <<Spell.equal, Spell.one, Spell.semicolon>>>>
BodyTemplate ==
    <<<<Spell.function, Spell.f, Spell.lparen, Spell.a, Spell.comma, Spell.b,
        Spell.rparen>>, <<>>>>
ParamsTemplate ==
    <<<<Spell.function, Spell.f, Spell.lparen>>,
      <<Spell.rparen, Spell.lbracket, Spell.return, Spell.a, Spell.plus, Spell.b,
        Spell.semicolon, Spell.rbracket>>>>
OperandTemplate == <<<<Spell.one, Spell.plus>>, <<>>>>
BlockTemplate == <<<<Spell.lbracket>>, <<Spell.rbracket>>>>
OpenBlockTemplate == <<<<Spell.lbracket>>, <<>>>>
BareTemplate == <<<<>>, <<>>>>

Templates == {VarTemplate, ConstTemplate, BodyTemplate, ParamsTemplate,
              OperandTemplate, BlockTemplate, OpenBlockTemplate, BareTemplate}

Fill(template, hole) == Join(template[1] \o hole \o template[2])

StatementSources == {Fill(t, h) : t \in Templates, h \in Holes}

Sources == CharSources \cup ExprSources \cup StatementSources

-----------------------------------------------------------------------------
(* The session *)

NoPull == [token |-> NoToken, raised |-> "none"]

Init ==
    /\ source \in Sources
    /\ curr_index = NewLexer.curr_index
    /\ row = NewLexer.row
    /\ col = NewLexer.col
    /\ phase = "lexer"
    /\ pulls = 0
    /\ last = NoPull
    /\ curr_token = NoToken
    /\ prev_token = NoToken
    /\ parsed_trees = <<>>
    /\ error = NoError

TheLexer == [curr_index |-> curr_index, row |-> row, col |-> col]

TheParser == [lexer |-> TheLexer, curr_token |-> curr_token, prev_token |-> prev_token]

SetLexer(lx) ==
    /\ curr_index' = lx.curr_index
    /\ row' = lx.row
    /\ col' = lx.col

\* the client calls Lexer.next itself
LexerNext ==
    /\ phase \in {"lexer", "returned"}
    /\ pulls < MaxPulls
    /\ \E n \in {Lexer_next(TheLexer)} :
          /\ SetLexer(n.lexer)
          /\ last' = [token |-> n.token, raised |-> n.raised]
          /\ phase' = IF n.raised # "none" THEN "raised" ELSE phase
          /\ error' = IF n.raised # "none" THEN Exception(n.raised) ELSE error
    /\ pulls' = pulls + 1
    /\ UNCHANGED <<source, curr_token, prev_token, parsed_trees>>

\* Parser(lexer) over a fresh Lexer: __init__ pulls the first token
NewParser ==
    /\ phase = "lexer"
    /\ pulls = 0
    /\ \E n \in {Lexer_next(TheLexer)} :
          /\ SetLexer(n.lexer)
          /\ last' = [token |-> n.token, raised |-> n.raised]
          /\ IF n.raised # "none"
             THEN /\ phase' = "raised"
                  /\ error' = Exception(n.raised)
                  /\ UNCHANGED <<curr_token, prev_token>>
             ELSE /\ phase' = "parser"
                  /\ error' = error
                  /\ curr_token' = n.token
                  /\ prev_token' = n.token
    /\ UNCHANGED <<source, pulls, parsed_trees>>

\* one activation of Parser.parse: return at end-of-input, or parse one
\* expression, append it, and call parse again (the next Parse step)
Parse ==
    /\ phase = "parser"
    /\ IF Parser_is_at_end(TheParser)
       THEN /\ phase' = "returned"
            /\ UNCHANGED <<curr_index, row, col, last, curr_token, prev_token,
                           parsed_trees, error>>
       ELSE \E expr \in parse_expr(TheParser, 0) :
            /\ SetLexer(expr.parser.lexer)
            /\ curr_token' = expr.parser.curr_token
            /\ prev_token' = expr.parser.prev_token
            /\ IF expr.err # NoError
               THEN /\ phase' = "raised"
                    /\ error' = expr.err
                    /\ last' = IF expr.err.kind = "IndexError"
                               THEN [token |-> NoToken, raised |-> "IndexError"]
                               ELSE [token |-> expr.parser.curr_token, raised |-> "none"]
                    /\ UNCHANGED parsed_trees
               ELSE /\ phase' = "parser"
                    /\ error' = error
                    /\ last' = [token |-> expr.parser.curr_token, raised |-> "none"]
                    /\ parsed_trees' = Append(parsed_trees, expr.tree)
    /\ UNCHANGED <<source, pulls>>

Next == LexerNext \/ NewParser \/ Parse

Spec == Init /\ [][Next]_vars

-----------------------------------------------------------------------------
(* Properties *)

\* the node t and every node below it, in a sequence
RECURSIVE Nodes(_), NodesOfAll(_)
Nodes(t) ==
    <<t>> \o
    CASE t.kind = "BinaryExpr" -> Nodes(t.lhs) \o Nodes(t.rhs)
      [] t.kind = "BlockExpr" -> NodesOfAll(t.exprs)
      [] t.kind \in {"VarExpr", "ConstExpr"} -> Nodes(t.lhs) \o Nodes(t.rhs)
      [] t.kind = "FunctionExpr" ->
             Nodes(t.identifier) \o NodesOfAll(t.params) \o Nodes(t.body)
      [] t.kind = "ReturnExpr" -> Nodes(t.expr)
      [] OTHER -> <<>>

NodesOfAll(trees) ==
    IF trees = <<>> THEN <<>> ELSE Nodes(Head(trees)) \o NodesOfAll(Tail(trees))

ParsedNodes == NodesOfAll(parsed_trees)

\* the session was a parse (no direct pull) and it is over
ParseEnded == pulls = 0 /\ phase \in {"returned", "raised"}

Precedence(op) == ALLOWED_OPS[op].precedence
LeftOps == {op \in DOMAIN ALLOWED_OPS : ALLOWED_OPS[op].associativity = "Left"}
RightOps == {op \in DOMAIN ALLOWED_OPS : ALLOWED_OPS[op].associativity = "Right"}

LeftNested(op1, op2, style) ==
    BinaryExpr(BinaryExpr(Leaf(style, 1), op1, Leaf(style, 2)), op2, Leaf(style, 3))
RightNested(op1, op2, style) ==
    BinaryExpr(Leaf(style, 1), op1, BinaryExpr(Leaf(style, 2), op2, Leaf(style, 3)))

Chain(op1, op2, style) == ExprSource(<<op1, op2>>, style, "operand")

LeftChains ==
    {[source |-> Chain(op1, op2, style), trees |-> <<LeftNested(op1, op2, style)>>] :
        <<op1, op2>> \in {p \in LeftOps \X LeftOps : Precedence(p[1]) = Precedence(p[2])},
        style \in OperandStyles}

\* C1: a chain a op1 b op2 c of two left-associative operators of the same
\* precedence is parsed to the left-nested tree ((a op1 b) op2 c)
C1_LeftAssociative ==
    ParseEnded =>
        \A c \in LeftChains :
            source = c.source => phase = "returned" /\ parsed_trees = c.trees

RightChains ==
    {[source |-> Chain(op1, op2, style), trees |-> <<RightNested(op1, op2, style)>>] :
        <<op1, op2>> \in RightOps \X RightOps, style \in OperandStyles}

\* C2: a chain a ^ b ^ c of the right-associative operator is parsed to the
\* right-nested tree (a ^ (b ^ c))
C2_RightAssociative ==
    ParseEnded =>
        \A c \in RightChains :
            source = c.source => phase = "returned" /\ parsed_trees = c.trees

Ops == DOMAIN ALLOWED_OPS

LoHi == {p \in Ops \X Ops : Precedence(p[1]) < Precedence(p[2])}

MixedChains ==
    {[source |-> Chain(p[1], p[2], style), trees |-> <<RightNested(p[1], p[2], style)>>] :
        p \in LoHi, style \in OperandStyles}
    \cup
    {[source |-> Chain(p[2], p[1], style), trees |-> <<LeftNested(p[2], p[1], style)>>] :
        p \in LoHi, style \in OperandStyles}

\* C3: with precedence(lo) < precedence(hi), a lo b hi c is parsed to
\* (a lo (b hi c)) and a hi b lo c to ((a hi b) lo c)
C3_Precedence ==
    ParseEnded =>
        \A c \in MixedChains :
            source = c.source => phase = "returned" /\ parsed_trees = c.trees

\* 1 + 2 * 3 was parsed to +(1, *(2, 3))
C3_Witness ==
    /\ source = <<"1", " ", "+", " ", "2", " ", "*", " ", "3">>
    /\ phase = "returned"
    /\ parsed_trees = <<BinaryExpr(IntExpr(1), <<"+">>,
                                   BinaryExpr(IntExpr(2), <<"*">>, IntExpr(3)))>>

MidExpressionSources ==
    {ExprSource(ops, style, ending) :
        ops \in BoundedSeq(Ops, MaxChain) \ {<<>>},
        style \in OperandStyles, ending \in {"operator", "space"}}

\* C4: a parse of a source that ends with a binary operator and no right
\* operand ends in the UnexpectedToken diagnostic whose actual lexeme is Eof
C4_MidExpressionDiagnostic ==
    (ParseEnded /\ source \in MidExpressionSources) =>
        /\ phase = "raised"
        /\ error.kind = "UnexpectedToken"
        /\ error.actual = EofLexeme

\* C5: no call of Lexer.next raises
C5_NextNeverRaises == last.raised = "none"

DeclarationsHaveIdentifier ==
    \A i \in 1..Len(ParsedNodes) :
        ParsedNodes[i].kind \in {"VarExpr", "ConstExpr"} =>
            ParsedNodes[i].lhs.kind = "IdentifierExpr"

IdentifierDiagnostic ==
    /\ phase = "raised"
    /\ error.kind = "UnexpectedToken"
    /\ error.expected = "identifier"

\* left-hand sides that are expressions but not a single identifier
NonIdentifierHoles ==
    {<<Spell.one>>, <<Spell.x, Spell.plus, Spell.x>>, <<Spell.x, Spell.plus, Spell.one>>,
     <<Spell.one, Spell.plus, Spell.x>>, <<Spell.one, Spell.plus, Spell.one>>}

NonIdentifierDeclarations ==
    {Fill(t, h) : t \in {VarTemplate, ConstTemplate}, h \in NonIdentifierHoles}

\* C6: every VarExpr and ConstExpr node of the parsed trees has an identifier
\* leaf as its left-hand node, and a parse step that starts at var or const
\* and parses a left-hand side other than a single identifier raises the
\* UnexpectedToken diagnostic expecting `identifier`, adding no tree
C6_DeclarationIdentifier ==
    [][ /\ DeclarationsHaveIdentifier'
        /\ (ParseEnded' /\ source \in NonIdentifierDeclarations)
              => (IdentifierDiagnostic' /\ parsed_trees' = <<>>)
        /\ (phase = "parser" /\ curr_token.type \in {"Var", "Const"}) =>
              \A keyword \in match(TheParser, curr_token.type) :
              \A lhs \in parse_expr(keyword.parser, 0) :
                  (keyword.err = NoError /\ lhs.err = NoError
                     /\ lhs.tree.kind # "IdentifierExpr")
                  => (IdentifierDiagnostic' /\ parsed_trees' = parsed_trees)
      ]_vars

\* var 1 + x = 1 ; was refused with the `identifier` diagnostic
C6_Witness ==
    /\ source = Fill(VarTemplate, <<Spell.one, Spell.plus, Spell.x>>)
    /\ IdentifierDiagnostic
    /\ parsed_trees = <<>>

\* C7: the body of every FunctionExpr node of the parsed trees is a BlockExpr
C7_FunctionBodyIsBlock ==
    \A i \in 1..Len(ParsedNodes) :
        ParsedNodes[i].kind = "FunctionExpr" => ParsedNodes[i].body.kind = "BlockExpr"

\* C8: once Lexer.next has returned the Eof token, the next call returns the
\* same token, does not raise and leaves curr_index, row and col as they were
C8_EofIsStable ==
    [][ (last.token.type = "Eof" /\ pulls' = pulls + 1) =>
            /\ last' = last
            /\ curr_index' = curr_index
            /\ row' = row
            /\ col' = col
            /\ phase' = phase
      ]_vars

\* "a (an unterminated string): the third pull returned Eof as the second did
C8_Witness ==
    /\ source = <<"\"", "a">>
    /\ pulls = 3
    /\ last = [token |-> Token("Eof", EofLexeme), raised |-> "none"]
    /\ curr_index = 3

\* C9: both children of every BinaryExpr node of the parsed trees are
\* literal or identifier leaves or BinaryExpr nodes
C9_OperandsArePrimary ==
    \A i \in 1..Len(ParsedNodes) :
        ParsedNodes[i].kind = "BinaryExpr" =>
            /\ ParsedNodes[i].lhs.kind \in PrimaryExpr \cup {"BinaryExpr"}
            /\ ParsedNodes[i].rhs.kind \in PrimaryExpr \cup {"BinaryExpr"}

\* what a parse has left to do: grows with the offset, greatest at end-of-input
Measure == IF curr_token.type = "Eof" THEN Len(source) + 2 ELSE curr_index

\* C10: the offset never decreases and stays within Len(source) + 1; every
\* iteration of the top-level loop that does not raise consumes a token; no
\* iteration of the block loop or of the parameter loop leaves the parser where
\* it was; every call of Lexer.next that returns a token other than Eof
\* moves the offset forward
C10_Progress ==
    [][ /\ curr_index' >= curr_index
        /\ curr_index' <= Len(source) + 1
        /\ error'.kind # "NonTermination"
        /\ (phase = "parser" /\ phase' = "parser") => Measure' > Measure
        /\ ((pulls' = pulls + 1 \/ (phase = "lexer" /\ phase' # "lexer"))
               /\ last'.raised = "none" /\ last'.token.type # "Eof")
              => curr_index' > curr_index
      ]_vars

\* function f ( x , x ) { return a + b ; } was parsed: the parameter loop and
\* the block loop have iterated and the top-level loop has returned
C10_Witness ==
    /\ source = Fill(ParamsTemplate, <<Spell.x, Spell.comma, Spell.x>>)
    /\ phase = "returned"
    /\ Len(parsed_trees) = 1
    /\ parsed_trees[1].kind = "FunctionExpr"
    /\ Len(parsed_trees[1].params) = 2
    /\ parsed_trees[1].body.kind = "BlockExpr"
    /\ Len(parsed_trees[1].body.exprs) = 1

=============================================================================
